---- MODULE Spec2Model ----
(***************************************************************************)
(* Model of etl.py: the batch job that reads the song catalog and the      *)
(* event log, builds the songs, artists, users, time and songplays tables  *)
(* and writes each of them with overwrite semantics.                       *)
(*                                                                         *)
(* A DataFrame is a sequence of rows (records).  A nullable column holds   *)
(* <<>> for SQL NULL and <<v>> for the value v.                            *)
(***************************************************************************)
EXTENDS Integers, Sequences, FiniteSets, TLC

VARIABLES song_data, log_data, tz, out, pc, log, df, df_log_data, df_song_data, run, prev

vars == <<song_data, log_data, tz, out, pc, log, df, df_log_data, df_song_data, run, prev>>

(* ------------------------------ bounds --------------------------------- *)

\* longest event-log input of Spec
MaxEvents == 2

\* longest song-catalog input of Spec
MaxSongs == 2

\* partitions the engine may spread the joined rows over
NumPartitions == 2

\* longest inputs of SpecRerun, and the number of times main is run there
MaxRerunRows == 1

MaxRuns == 2

(* --------------------------- nullable values --------------------------- *)

NULL == <<>>

Some(v) == <<v>>

(* ------------------------------ inputs --------------------------------- *)

SongRecord(song_id, title, artist_id, artist_name, year) ==
    [song_id |-> song_id, title |-> title, artist_id |-> artist_id,
     year |-> year, duration |-> 200, artist_name |-> artist_name,
     artist_location |-> "Oslo", artist_latitude |-> 59, artist_longitude |-> 10]

\* K1 and K2 carry the same title and artist name (one event matches both,
\* and both give the same artists row); K3 has no title.
SongPool ==
    { SongRecord("S1", Some("X"), "A1", Some("Y"), 2000),
      SongRecord("S2", Some("X"), "A1", Some("Y"), 2001),
      SongRecord("S3", NULL, "A2", Some("Y"), 2000) }

EventRecord(userId, level, ts, page, song, artist, sessionId) ==
    [userId |-> userId, firstName |-> "Ann", lastName |-> "Lee", gender |-> "F",
     level |-> level, ts |-> ts, page |-> page, song |-> song, artist |-> artist,
     sessionId |-> sessionId, location |-> "NYC", userAgent |-> "Mozilla"]

EventPool ==
    { EventRecord(Some("8"), "free", Some(0), "NextSong", Some("X"), Some("Y"), 1),
      EventRecord(Some("8"), "paid", Some(3600000), "NextSong", Some("X"), Some("Y"), 2),
      EventRecord(NULL, "free", Some(0), "NextSong", Some("X"), Some("Y"), 3),
      EventRecord(Some("9"), "free", NULL, "NextSong", Some("X"), Some("Y"), 4),
      EventRecord(Some("7"), "free", Some(7200000), "Home", Some("X"), Some("Y"), 5),
      EventRecord(Some(""), "free", Some(0), "NextSong", Some("Z"), Some("Y"), 6),
      EventRecord(Some("n/a"), "free", Some(0), "NextSong", NULL, Some("Y"), 6) }

\* offset of the local time zone from UTC, in milliseconds: one hour behind,
\* so that the inputs' timestamps fall in two months of two years
LocalOffsets == {0 - 3600000}

SeqsUpTo(S, n) == UNION {[1..k -> S] : k \in 0..n}

(* --------------------------- DataFrame engine -------------------------- *)

Contains(s, r) == \E i \in 1..Len(s) : s[i] = r

Count(s, r) == Cardinality({i \in 1..Len(s) : s[i] = r})

RECURSIVE dropDuplicates(_)
dropDuplicates(s) ==
    IF s = <<>> THEN <<>>
    ELSE LET front == dropDuplicates(SubSeq(s, 1, Len(s) - 1))
             last == s[Len(s)]
         IN  IF Contains(front, last) THEN front ELSE Append(front, last)

\* (variant: null-safe equality, under which two NULLs match)
SqlEqNullSafe(a, b) == a = b

\* SQL equality of two nullable values used as a predicate: NULL never matches
SqlEq(a, b) == a # NULL /\ b # NULL /\ a = b

\* the pairs of a row of l and a row of r, in row order
CrossJoin(l, r) ==
    [k \in 1..(Len(l) * Len(r)) |->
        <<l[((k - 1) \div Len(r)) + 1], r[((k - 1) % Len(r)) + 1]>>]

\* cast of a string column to integer: a decimal string gives its value,
\* any other string gives NULL
DecimalValue == ("7" :> 7) @@ ("8" :> 8) @@ ("9" :> 9)

CastInteger(v) ==
    IF v = NULL THEN NULL
    ELSE IF v[1] \in DOMAIN DecimalValue THEN Some(DecimalValue[v[1]]) ELSE NULL

\* the ways the engine may lay n rows out over its partitions, in row order
Layouts(n) ==
    {f \in [1..n -> 0..(NumPartitions - 1)] : \A i \in 1..(n - 1) : f[i] <= f[i + 1]}

\* monotonically_increasing_id of row i under a layout: (partition << 33) +
\* position in the partition, kept as the pair <<partition, position>>
monotonically_increasing_id(layout, i) ==
    <<layout[i], Cardinality({j \in 1..(i - 1) : layout[j] = layout[i]})>>

\* (variant: mode 'append')
AppendMode(old, new) == old \o new

\* mode 'overwrite' of a write: the new table replaces what the location held
WriteMode(old, new) == new

(* ------------------------------- calendar ------------------------------ *)

\* proleptic Gregorian date of a day number counted from 1970-01-01
CivilFromDays(days) ==
    LET z == days + 719468
        era == z \div 146097
        doe == z - era * 146097
        yoe == (doe - (doe \div 1460) + (doe \div 36524) - (doe \div 146096)) \div 365
        doy == doe - (365 * yoe + (yoe \div 4) - (yoe \div 100))
        mp == (5 * doy + 2) \div 153
        d == doy - ((153 * mp + 2) \div 5) + 1
        m == IF mp < 10 THEN mp + 3 ELSE mp - 9
    IN  [year |-> yoe + era * 400 + (IF m <= 2 THEN 1 ELSE 0), month |-> m, day |-> d]

DaysFromCivil(y, m, d) ==
    LET yy == IF m <= 2 THEN y - 1 ELSE y
        era == yy \div 400
        yoe == yy - era * 400
        mp == IF m > 2 THEN m - 3 ELSE m + 9
        doy == ((153 * mp + 2) \div 5) + d - 1
        doe == yoe * 365 + (yoe \div 4) - (yoe \div 100) + doy
    IN  era * 146097 + doe - 719468

\* datetime.fromtimestamp(ts/1000) in the zone at offset zone, written by
\* isoformat() and cast to a timestamp: the local wall-clock time of ts
get_timestamp(ts, zone) ==
    LET local == ts[1] + zone
        days == local \div 86400000
        ms == local % 86400000
        date == CivilFromDays(days)
    IN  [year |-> date.year, month |-> date.month, day |-> date.day,
         hour |-> ms \div 3600000, minute |-> (ms % 3600000) \div 60000,
         second |-> (ms % 60000) \div 1000, micros |-> (ms % 1000) * 1000]

DayNumber(t) == DaysFromCivil(t.year, t.month, t.day)

hour(t) == t.hour

dayofmonth(t) == t.day

month(t) == t.month

year(t) == t.year

\* Sunday = 1 ... Saturday = 7 (1970-01-01 was a Thursday)
dayofweek(t) == ((DayNumber(t) + 4) % 7) + 1

\* ISO 8601 week: the week of the year that holds this week's Thursday
weekofyear(t) ==
    LET days == DayNumber(t)
        thursday == days - (((days + 3) % 7) + 1) + 4
        y == CivilFromDays(thursday).year
    IN  ((thursday - DaysFromCivil(y, 1, 1)) \div 7) + 1

(* ---------------------------- process_song_data ----------------------- *)

\* (variant: the projection without dropDuplicates)
songs_table_keep_duplicates(d) ==
    LET select(r) == [song_id |-> r.song_id, title |-> r.title, artist_id |-> r.artist_id,
                      year |-> r.year, duration |-> r.duration]
    IN  [i \in 1..Len(d) |-> select(d[i])]

songs_table(d) ==
    LET select(r) == [song_id |-> r.song_id, title |-> r.title, artist_id |-> r.artist_id,
                      year |-> r.year, duration |-> r.duration]
    IN  dropDuplicates([i \in 1..Len(d) |-> select(d[i])])

artists_table(d) ==
    LET select(r) == [artist_id |-> r.artist_id, artist_name |-> r.artist_name,
                      artist_location |-> r.artist_location,
                      artist_latitude |-> r.artist_latitude,
                      artist_longitude |-> r.artist_longitude]
        toDF(r) == [artist_id |-> r.artist_id, name |-> r.artist_name,
                    location |-> r.artist_location, latitude |-> r.artist_latitude,
                    longitude |-> r.artist_longitude]
        selected == dropDuplicates([i \in 1..Len(d) |-> select(d[i])])
    IN  [i \in 1..Len(selected) |-> toDF(selected[i])]

(* ---------------------------- process_log_data ------------------------ *)

\* (variant: no page filter)
AllPages(d) == d

\* line 90: the filter every event-derived table starts from
NextSongOnly(d) ==
    LET isNextSong(r) == r.page = "NextSong"
    IN  SelectSeq(d, isNextSong)

\* (variant: the users table without the userId filter)
df_users_table_keep_null(d) ==
    LET select(r) == [userId |-> r.userId, firstName |-> r.firstName,
                      lastName |-> r.lastName, gender |-> r.gender, level |-> r.level]
        toDF(r) == [user_id |-> r.userId, first_name |-> r.firstName,
                    last_name |-> r.lastName, gender |-> r.gender, level |-> r.level]
        cast(r) == [r EXCEPT !.user_id = CastInteger(r.user_id)]
        selected == dropDuplicates([i \in 1..Len(d) |-> select(d[i])])
    IN  [i \in 1..Len(selected) |-> cast(toDF(selected[i]))]

\* (variant: dropDuplicates(['userId']), one row per userId)
df_users_table_by_userId(d) ==
    LET userIdNotNull(r) == r.userId # NULL
        select(r) == [userId |-> r.userId, firstName |-> r.firstName,
                      lastName |-> r.lastName, gender |-> r.gender, level |-> r.level]
        known == SelectSeq(d, userIdNotNull)
        rows == [i \in 1..Len(known) |-> select(known[i])]
        first(i) == \A j \in 1..(i - 1) : rows[j].userId # rows[i].userId
        kept == SelectSeq([i \in 1..Len(rows) |-> i], first)
        toDF(i) == [user_id |-> CastInteger(rows[i].userId), first_name |-> rows[i].firstName,
                    last_name |-> rows[i].lastName, gender |-> rows[i].gender,
                    level |-> rows[i].level]
    IN  [i \in 1..Len(kept) |-> toDF(kept[i])]

df_users_table(d) ==
    LET userIdNotNull(r) == r.userId # NULL
        select(r) == [userId |-> r.userId, firstName |-> r.firstName,
                      lastName |-> r.lastName, gender |-> r.gender, level |-> r.level]
        toDF(r) == [user_id |-> r.userId, first_name |-> r.firstName,
                    last_name |-> r.lastName, gender |-> r.gender, level |-> r.level]
        cast(r) == [r EXCEPT !.user_id = CastInteger(r.user_id)]
        known == SelectSeq(d, userIdNotNull)
        selected == dropDuplicates([i \in 1..Len(known) |-> select(known[i])])
    IN  [i \in 1..Len(selected) |-> cast(toDF(selected[i]))]

\* (variant: the time table built from the events that passed the userId filter)
df_time_table_known_users(d, zone) ==
    LET keep(r) == r.ts # NULL /\ r.userId # NULL
        select(r) == [ts |-> r.ts]
        columns(r) ==
            LET start_time == get_timestamp(r.ts, zone)
            IN  [start_time |-> start_time, hour |-> hour(start_time),
                 day |-> dayofmonth(start_time), week |-> weekofyear(start_time),
                 month |-> month(start_time), year |-> year(start_time),
                 weekday |-> dayofweek(start_time)]
        timed == SelectSeq(d, keep)
        selected == dropDuplicates([i \in 1..Len(timed) |-> select(timed[i])])
    IN  [i \in 1..Len(selected) |-> columns(selected[i])]

df_time_table(d, zone) ==
    LET tsNotNull(r) == r.ts # NULL
        select(r) == [ts |-> r.ts]
        columns(r) ==
            LET start_time == get_timestamp(r.ts, zone)
            IN  [start_time |-> start_time, hour |-> hour(start_time),
                 day |-> dayofmonth(start_time), week |-> weekofyear(start_time),
                 month |-> month(start_time), year |-> year(start_time),
                 weekday |-> dayofweek(start_time)]
        timed == SelectSeq(d, tsNotNull)
        selected == dropDuplicates([i \in 1..Len(timed) |-> select(timed[i])])
    IN  [i \in 1..Len(selected) |-> columns(selected[i])]

\* lines 135-143: the joined rows that get a songplay_id
songplay_rows(d, songs, zone) ==
    LET on(p) == SqlEq(p[1].song, p[2].title) /\ SqlEq(p[1].artist, p[2].artist_name)
        matched == SelectSeq(CrossJoin(d, songs), on)
        joined == [i \in 1..Len(matched) |-> matched[i][1] @@ matched[i][2]]
        keep(r) == r.page = "NextSong" /\ r.ts # NULL
        kept == SelectSeq(joined, keep)
    IN  [i \in 1..Len(kept) |-> kept[i] @@ [timestamp |-> get_timestamp(kept[i].ts, zone)]]

\* (variant: the id given to the event before the join, shared by its rows)
with_songplay_id_per_event(rows, layout) ==
    LET event(r) == <<r.userId, r.level, r.ts, r.song, r.artist, r.sessionId>>
        first(i) == CHOOSE k \in 1..i :
                        /\ event(rows[k]) = event(rows[i])
                        /\ \A j \in 1..(k - 1) : event(rows[j]) # event(rows[i])
    IN  [i \in 1..Len(rows) |->
            rows[i] @@ [songplay_id |-> monotonically_increasing_id(layout, first(i))]]

\* lines 146-147: every row gets the id the engine generates for it
with_songplay_id(rows, layout) ==
    [i \in 1..Len(rows) |->
        rows[i] @@ [songplay_id |-> monotonically_increasing_id(layout, i)]]

\* lines 150-162
df_songplays_table(rows, layout) ==
    LET select(r) == [songplay_id |-> r.songplay_id, start_time |-> r.timestamp,
                      user_id |-> r.userId, level |-> r.level, song_id |-> r.song_id,
                      artist_id |-> r.artist_id, session_id |-> r.sessionId,
                      location |-> r.location, user_agent |-> r.userAgent,
                      month |-> month(r.timestamp), year |-> year(r.timestamp)]
        numbered == with_songplay_id(rows, layout)
    IN  dropDuplicates([i \in 1..Len(numbered) |-> select(numbered[i])])

(* ------------------------------- state --------------------------------- *)

Tables == {"songs", "artists", "users", "time", "songplays"}

\* the reads and writes of one run, in program order
StepOrder ==
    <<"read_song_data", "write_songs", "write_artists", "read_log_data",
      "write_users", "write_time", "reread_song_data", "write_songplays">>

\* the output location a step writes, if it writes one
Target ==
    [s \in {"write_songs", "write_artists", "write_users", "write_time", "write_songplays"} |->
        CASE s = "write_songs" -> "songs"
          [] s = "write_artists" -> "artists"
          [] s = "write_users" -> "users"
          [] s = "write_time" -> "time"
          [] s = "write_songplays" -> "songplays"]

\* what the previous run left, when it completed
NoSnapshot == [complete |-> FALSE, tables |-> [t \in Tables |-> <<>>]]

Init ==
    /\ song_data \in SeqsUpTo(SongPool, MaxSongs)
    /\ log_data \in SeqsUpTo(EventPool, MaxEvents)
    /\ tz \in LocalOffsets
    /\ out = [t \in Tables |-> <<>>]
    /\ pc = "create_spark_session"
    /\ log = <<>>
    /\ df = <<>>
    /\ df_log_data = <<>>
    /\ df_song_data = <<>>
    /\ run = 1
    /\ prev = NoSnapshot

Step(from, to) ==
    /\ pc = from
    /\ pc' = to
    /\ log' = IF \E i \in 1..Len(StepOrder) : StepOrder[i] = from
              THEN Append(log, from) ELSE log
    /\ UNCHANGED <<song_data, log_data, tz, run, prev>>

Write(table, rows) == out' = [out EXCEPT ![table] = WriteMode(out[table], rows)]

(* ------------------------------- actions ------------------------------- *)

create_spark_session ==
    /\ Step("create_spark_session", "read_song_data")
    /\ UNCHANGED <<out, df, df_log_data, df_song_data>>

\* line 51
ReadSongData ==
    /\ Step("read_song_data", "write_songs")
    /\ df' = song_data
    /\ UNCHANGED <<out, df_log_data, df_song_data>>

\* lines 54-60
WriteSongs ==
    /\ Step("write_songs", "write_artists")
    /\ Write("songs", songs_table(df))
    /\ UNCHANGED <<df, df_log_data, df_song_data>>

\* lines 63-71
WriteArtists ==
    /\ Step("write_artists", "read_log_data")
    /\ Write("artists", artists_table(df))
    /\ UNCHANGED <<df, df_log_data, df_song_data>>

\* lines 87-90
ReadLogData ==
    /\ Step("read_log_data", "write_users")
    /\ df_log_data' = NextSongOnly(log_data)
    /\ UNCHANGED <<out, df, df_song_data>>

\* lines 93-104
WriteUsers ==
    /\ Step("write_users", "write_time")
    /\ Write("users", df_users_table(df_log_data))
    /\ UNCHANGED <<df, df_log_data, df_song_data>>

\* lines 107-128
WriteTime ==
    /\ Step("write_time", "reread_song_data")
    /\ Write("time", df_time_table(df_log_data, tz))
    /\ UNCHANGED <<df, df_log_data, df_song_data>>

\* lines 131-132
RereadSongData ==
    /\ Step("reread_song_data", "write_songplays")
    /\ df_song_data' = song_data
    /\ UNCHANGED <<out, df, df_log_data>>

\* lines 135-167
WriteSongplays ==
    /\ Step("write_songplays", "done")
    /\ LET rows == songplay_rows(df_log_data, df_song_data, tz)
       IN  \E layout \in Layouts(Len(rows)) :
               Write("songplays", df_songplays_table(rows, layout))
    /\ UNCHANGED <<df, df_log_data, df_song_data>>

\* (variant: the exception is caught and the run goes on with the next step)
Swallowed(step) ==
    LET order == <<"create_spark_session">> \o StepOrder \o <<"done">>
        at == CHOOSE i \in 1..(Len(order) - 1) : order[i] = step
    IN  /\ pc' = order[at + 1]
        /\ out' = out

\* what an exception in the current step leaves behind: nothing catches it, so
\* the process ends; a write that fails may already have cleared its location
Uncaught(step) ==
    /\ pc' = "failed"
    /\ IF step \in DOMAIN Target
       THEN \E left \in {out[Target[step]], <<>>} :
                out' = [out EXCEPT ![Target[step]] = left]
       ELSE out' = out

\* a step of the run raises (a missing path, a malformed record, a storage error)
Raise ==
    /\ pc \notin {"done", "failed"}
    /\ Uncaught(pc)
    /\ UNCHANGED <<song_data, log_data, tz, log, df, df_log_data, df_song_data, run, prev>>

\* the tables of the output locations without the synthetic songplay_id
WithoutIds(o) ==
    LET strip(r) == [start_time |-> r.start_time, user_id |-> r.user_id, level |-> r.level,
                     song_id |-> r.song_id, artist_id |-> r.artist_id,
                     session_id |-> r.session_id, location |-> r.location,
                     user_agent |-> r.user_agent, month |-> r.month, year |-> r.year]
    IN  [o EXCEPT !["songplays"] = [i \in 1..Len(o["songplays"]) |-> strip(o["songplays"][i])]]

\* the job is started again on the same input (lines 180-181)
Rerun ==
    /\ pc \in {"done", "failed"}
    /\ run < MaxRuns
    /\ run' = run + 1
    /\ prev' = IF pc = "done" THEN [complete |-> TRUE, tables |-> WithoutIds(out)]
                ELSE NoSnapshot
    /\ pc' = "create_spark_session"
    /\ log' = <<>>
    /\ df' = <<>>
    /\ df_log_data' = <<>>
    /\ df_song_data' = <<>>
    /\ UNCHANGED <<song_data, log_data, tz, out>>

main ==
    \/ create_spark_session
    \/ ReadSongData
    \/ WriteSongs
    \/ WriteArtists
    \/ ReadLogData
    \/ WriteUsers
    \/ WriteTime
    \/ RereadSongData
    \/ WriteSongplays

Next == main \/ Raise

Spec == Init /\ [][Next]_vars

\* repeated runs over one small unchanged input
RerunSongPool == {SongRecord("S1", Some("X"), "A1", Some("Y"), 2000)}

RerunEventPool ==
    { EventRecord(Some("8"), "free", Some(0), "NextSong", Some("X"), Some("Y"), 1),
      EventRecord(Some("7"), "free", Some(7200000), "Home", Some("X"), Some("Y"), 5) }

InitRerun ==
    /\ Init
    /\ song_data \in SeqsUpTo(RerunSongPool, MaxRerunRows)
    /\ log_data \in SeqsUpTo(RerunEventPool, MaxRerunRows)

NextRerun == main \/ Raise \/ Rerun

SpecRerun == InitRerun /\ [][NextRerun]_vars

(* ------------------------ vocabulary of the claims --------------------- *)

Wrote(step) == \E i \in 1..Len(log) : log[i] = step

Rows(s) == {s[i] : i \in 1..Len(s)}

Distinct(s) == \A i, j \in 1..Len(s) : i # j => s[i] # s[j]

IsPrefix(s, t) == Len(s) <= Len(t) /\ \A i \in 1..Len(s) : s[i] = t[i]

SameRows(s, t) == \A r \in Rows(s) \cup Rows(t) : Count(s, r) = Count(t, r)

Events == Rows(log_data)

Catalog == Rows(song_data)

\* the events a play-related table may draw on
Plays == {e \in Events : e.page = "NextSong"}

UsersTuple(e) == <<e.userId, e.firstName, e.lastName, e.gender, e.level>>

UsersRowOf(e) ==
    [user_id |-> CastInteger(e.userId), first_name |-> e.firstName,
     last_name |-> e.lastName, gender |-> e.gender, level |-> e.level]

SongsRowOf(c) ==
    [song_id |-> c.song_id, title |-> c.title, artist_id |-> c.artist_id,
     year |-> c.year, duration |-> c.duration]

ArtistsRowOf(c) ==
    [artist_id |-> c.artist_id, name |-> c.artist_name, location |-> c.artist_location,
     latitude |-> c.artist_latitude, longitude |-> c.artist_longitude]

\* the columns of a songplays row that come from the event
FromEvent(row, e) ==
    /\ e.ts # NULL
    /\ row.start_time = get_timestamp(e.ts, tz)
    /\ row.user_id = e.userId
    /\ row.level = e.level
    /\ row.session_id = e.sessionId
    /\ row.location = e.location
    /\ row.user_agent = e.userAgent

Matches(e, c) ==
    /\ e.song # NULL
    /\ e.artist # NULL
    /\ e.song = c.title
    /\ e.artist = c.artist_name

PairColumns(row) ==
    [song_id |-> row.song_id, artist_id |-> row.artist_id, user_id |-> row.user_id,
     level |-> row.level, session_id |-> row.session_id, location |-> row.location,
     user_agent |-> row.user_agent]

PairRow(e, c) ==
    [song_id |-> c.song_id, artist_id |-> c.artist_id, user_id |-> e.userId,
     level |-> e.level, session_id |-> e.sessionId, location |-> e.location,
     user_agent |-> e.userAgent]

(* -------------------------------- claims ------------------------------- *)

\* C1: once songplays is written, its rows are exactly the rows built from the
\* pairs (e, c) of a NextSong event with a timestamp and a catalog record with
\* e.song = c.title and e.artist = c.artist_name (a null never matches); each
\* carries c's song_id and artist_id and e's userId, level, sessionId, location
\* and userAgent.  With no matching pair the table is written empty.
JoinCorrectness ==
    /\ Wrote("write_songplays") =>
          /\ {PairColumns(r) : r \in Rows(out["songplays"])}
               = {PairRow(p[1], p[2]) :
                    p \in {q \in Plays \X Catalog : q[1].ts # NULL /\ Matches(q[1], q[2])}}
          /\ \A r \in Rows(out["songplays"]) :
                \E e \in Plays, c \in Catalog :
                    Matches(e, c) /\ FromEvent(r, e) /\ PairColumns(r) = PairRow(e, c)
    /\ (Wrote("write_songplays") /\ \A e \in Events, c \in Catalog : ~Matches(e, c))
          => out["songplays"] = <<>>

JoinCorrectnessWitness ==
    /\ pc = "done"
    /\ out["songplays"] # <<>>
    /\ \E e \in Plays : e.ts # NULL /\ \A c \in Catalog : ~Matches(e, c)
    /\ \E e \in Plays, c \in Catalog : e.song = c.title /\ ~Matches(e, c)

\* C2: once songplays is written from a catalog without duplicate records, no
\* two of its rows agree on (start_time, user_id, level, song_id, artist_id,
\* session_id, location, user_agent, month, year).
FactTableDedup ==
    (Wrote("write_songplays") /\ Distinct(song_data))
        => Distinct(WithoutIds(out)["songplays"])

\* C3: every users row comes from an event with a userId, and every time row
\* and every songplays row comes from an event with a ts.
NullHandling ==
    /\ Wrote("write_users") =>
          \A r \in Rows(out["users"]) :
              \E e \in Events : e.userId # NULL /\ UsersRowOf(e) = r
    /\ Wrote("write_time") =>
          \A r \in Rows(out["time"]) :
              \E e \in Events : e.ts # NULL /\ r.start_time = get_timestamp(e.ts, tz)
    /\ Wrote("write_songplays") =>
          \A r \in Rows(out["songplays"]) : \E e \in Events : FromEvent(r, e)

NullHandlingWitness ==
    /\ pc = "done"
    /\ out["songplays"] # <<>>
    /\ out["users"] # <<>>
    /\ \E e \in Plays : e.userId = NULL
    /\ \E e \in Plays, c \in Catalog : e.ts = NULL /\ Matches(e, c)

\* C4: every row of the users, time and songplays tables comes from an event
\* with page = "NextSong"; a user, or a ts, seen only on other pages has no row.
PageFilter ==
    /\ Wrote("write_users") =>
          /\ \A r \in Rows(out["users"]) : \E e \in Plays : UsersRowOf(e) = r
          /\ \A e \in Events \ Plays :
                (\A f \in Plays : f.userId # e.userId)
                    => \A r \in Rows(out["users"]) :
                          r.user_id = NULL \/ r.user_id # CastInteger(e.userId)
    /\ Wrote("write_time") =>
          \A r \in Rows(out["time"]) :
              \E e \in Plays : e.ts # NULL /\ r.start_time = get_timestamp(e.ts, tz)
    /\ Wrote("write_songplays") =>
          \A r \in Rows(out["songplays"]) : \E e \in Plays : FromEvent(r, e)

PageFilterWitness ==
    /\ pc = "done"
    /\ out["users"] # <<>>
    /\ out["time"] # <<>>
    /\ \E e \in Events \ Plays :
          /\ \A f \in Plays : f.userId # e.userId /\ f.ts # e.ts
          /\ \E c \in Catalog : Matches(e, c)

\* C5: every NextSong event with a userId has its own (user_id, first_name,
\* last_name, gender, level) row in the users table, so one userId seen with
\* two levels has two rows.
UsersFullRowDedup ==
    Wrote("write_users") =>
        \A e \in Plays : e.userId # NULL => Contains(out["users"], UsersRowOf(e))

UsersFullRowDedupWitness ==
    /\ Wrote("write_users")
    /\ \E i, j \in 1..Len(out["users"]) :
          /\ out["users"][i].user_id # NULL
          /\ out["users"][i].user_id = out["users"][j].user_id
          /\ out["users"][i].level # out["users"][j].level

\* C6: every songplays row has a songplay_id and no two rows share one.
SongplayIdUnique ==
    Wrote("write_songplays") =>
        /\ \A r \in Rows(out["songplays"]) : "songplay_id" \in DOMAIN r
        /\ \A i, j \in 1..Len(out["songplays"]) :
              i # j => out["songplays"][i].songplay_id # out["songplays"][j].songplay_id

SongplayIdUniqueWitness ==
    /\ pc = "done"
    /\ Len(out["songplays"]) >= 2
    /\ Len(log_data) = 1

\* C7: a run that completes after a completed run on the same input leaves
\* every output location with the rows the earlier run left (songplay_id aside).
RerunIdempotent ==
    (pc = "done" /\ prev.complete) =>
        \A t \in Tables : SameRows(WithoutIds(out)[t], prev.tables[t])

RerunIdempotentWitness ==
    /\ pc = "done"
    /\ run = 2
    /\ prev.complete
    /\ \A t \in Tables : out[t] # <<>>

\* the steps taken so far are a prefix of the program order, a completed run
\* took them all, and a location whose write was not reached holds nothing
FailFastInv ==
    /\ IsPrefix(log, StepOrder)
    /\ pc = "done" => log = StepOrder
    /\ \A s \in DOMAIN Target : ~Wrote(s) => out[Target[s]] = <<>>

\* no step leaves a failed or a completed run; a step that fails records
\* nothing and changes no location but its own; any other step is the next of
\* the program order and writes at most its own location
FailFastStep ==
    /\ pc # "failed"
    /\ pc # "done"
    /\ pc' = "failed" =>
          /\ log' = log
          /\ \A t \in Tables : (pc \notin DOMAIN Target \/ t # Target[pc]) => out'[t] = out[t]
    /\ pc' # "failed" =>
          /\ log' = log \/ (Len(log) < Len(StepOrder) /\ log' = Append(log, StepOrder[Len(log) + 1]))
          /\ \A t \in Tables : out'[t] # out[t] => (log' # log /\ log'[Len(log')] \in DOMAIN Target
                                                     /\ Target[log'[Len(log')]] = t)

\* C8: the steps of a run are a prefix of the program order (read catalog,
\* write songs, write artists, read events, write users, write time, re-read
\* catalog, write songplays), each taken at most once; a step that fails ends
\* the run as failed, is not retried, lets no later table be written and
\* leaves the tables written before it in place; a run completes only after
\* all five tables were written.
FailFast == []FailFastInv /\ [][FailFastStep]_vars

FailFastWitness ==
    /\ pc = "failed"
    /\ Wrote("write_artists")
    /\ ~Wrote("write_users")
    /\ out["songs"] # <<>>
    /\ out["artists"] # <<>>

\* C9: the songs table has one row per distinct (song_id, title, artist_id,
\* year, duration) of the catalog, the artists table one per distinct
\* (artist_id, artist_name, artist_location, artist_latitude,
\* artist_longitude), and the users table one per distinct (userId, firstName,
\* lastName, gender, level) of the NextSong events with a userId.
DimensionDedup ==
    /\ Wrote("write_songs") =>
          /\ Distinct(out["songs"])
          /\ Rows(out["songs"]) = {SongsRowOf(c) : c \in Catalog}
    /\ Wrote("write_artists") =>
          /\ Distinct(out["artists"])
          /\ Rows(out["artists"]) = {ArtistsRowOf(c) : c \in Catalog}
    /\ Wrote("write_users") =>
          LET known == {e \in Plays : e.userId # NULL}
          IN  /\ Len(out["users"]) = Cardinality({UsersTuple(e) : e \in known})
              /\ \A r \in Rows(out["users"]) \cup {UsersRowOf(e) : e \in known} :
                    Count(out["users"], r)
                      = Cardinality({UsersTuple(e) : e \in {f \in known : UsersRowOf(f) = r}})

DimensionDedupWitness ==
    /\ pc = "done"
    /\ ~Distinct(song_data)
    /\ ~Distinct(log_data)
    /\ out["users"] # <<>>

\* C10: after a completed run every songplays row has its start_time, year and
\* month in a row of the time table.
FactTimeIntegrity ==
    pc = "done" =>
        \A r \in Rows(out["songplays"]) :
            \E t \in Rows(out["time"]) :
                t.start_time = r.start_time /\ t.year = r.year /\ t.month = r.month

FactTimeIntegrityWitness ==
    /\ pc = "done"
    /\ \E i, j \in 1..Len(out["songplays"]) :
          out["songplays"][i].month # out["songplays"][j].month

====
